---------------------------- MODULE Spec2Model ----------------------------
(***************************************************************************)
(* Model of src/telegram_bot.py (yelena0000/fish-store): the handlers of   *)
(* the conversation, the StrapiClient they call, and the remote store the  *)
(* client talks to.                                                        *)
(*                                                                         *)
(* The store is external: every request is answered by the backend with a  *)
(* status the bot does not control, and a deleted item (status "stale")    *)
(* may or may not be listed by each later read until the delete has        *)
(* reached every read (status "gone").                                     *)
(*                                                                         *)
(* The handler functions are driven directly, each one in the conversation *)
(* state its own return values name (handle_product_selection in           *)
(* HANDLE_MENU, handle_quantity_selection and handle_custom_quantity in    *)
(* HANDLE_QUANTITY, handle_cart_actions in HANDLE_CART).  The dispatcher   *)
(* of python-telegram-bot runs one handler at a time, so a handler is one  *)
(* atomic action, except remove_from_cart, whose retry loop sleeps between *)
(* requests: it is one action per request, interleaved with the backend.   *)
(*                                                                         *)
(* The specifications share the actions:                                   *)
(*   Spec          browsing, adding and removing, on one product and one   *)
(*                 preset quantity;                                        *)
(*   SpecShop      browsing and adding, on every quantity button and text; *)
(*   SpecQuantity  choosing a quantity for one product, on every button    *)
(*                 and text, and leaving by the main menu;                 *)
(*   SpecCart      viewing a cart of two products and removing from it;    *)
(*   SpecOrder     viewing the cart, checking out and sending an email;    *)
(*   SpecTwoChats  the same, while a second conversation of the user       *)
(*                 removes from the cart;                                  *)
(*   SpecRemove    viewing and removing, with an observer (obs) that       *)
(*                 counts the requests of the running remove_from_cart     *)
(*                 call;                                                   *)
(*   SpecCancel    asking for a quantity and cancelling;                   *)
(*   SpecCatalog   refreshing the catalogue, tapping products and viewing  *)
(*                 the cart while the owner edits the catalogue;           *)
(*   SpecClear     viewing and clearing a cart;                            *)
(*   SpecTwoUsers  one user removing while another user talks to the bot;  *)
(*   SpecMain      the conversation as main registers it: /start, callback *)
(*                 queries and texts go to the handler main names for the  *)
(*                 state, or to none; obs notes the update dispatched.     *)
(***************************************************************************)
EXTENDS Integers, Sequences, FiniteSets, TLC

\* ---------------------------------------------------------------- bounds
\* Most carts and cart items the store holds in a run.
MaxCarts == 2
MaxItems == 2

\* Most orders the store holds in a run.
MaxOrders == 1

\* ------------------------------------------------------- program constants
\* telegram_bot.py:27  START, HANDLE_MENU, ... = range(6)
START == 0
HANDLE_MENU == 1
HANDLE_PRODUCTS == 2
HANDLE_CART == 3
HANDLE_QUANTITY == 4
WAITING_EMAIL == 5
\* ConversationHandler.END
END == -1

\* The conversations of the ConversationHandler, one per chat and user:
\* 101 is the user's private chat with the bot, 201 a second chat in which
\* the same user talks to it, 102 the private chat of another user.  Users
\* are the conversations every specification drives.
Users == {101}

Chats == {101, 201, 102}

\* The second chat of the user of 101, and the chat of the other user.
SecondChats == {201}

OtherUsers == {102}

\* str(update.effective_user.id) in conversation u: the tg_id of the
\* user's cart.
tg_id(u) == IF u = 102 THEN 102 ELSE 101

\* The stores the sessions start in front of: no cart, the user's cart,
\* the cart of another owner (tg_id 102) and the user's.
NoCart == <<>>
OwnCart == <<101>>
TwoCarts == <<102, 101>>

\* A float as Python holds it after float(text): a decimal m / 10^e, kept
\* canonical (no trailing zero), or nan, or +-inf.
Num(m, e) == [kind |-> "num", m |-> m, e |-> e]
NaN == [kind |-> "nan", m |-> 0, e |-> 0]
Inf(sign) == [kind |-> "inf", m |-> sign, e |-> 0]

RECURSIVE Pow10(_)
Pow10(e) == IF e = 0 THEN 1 ELSE 10 * Pow10(e - 1)

\* A decimal without trailing zeros in its fraction.
RECURSIVE Canonical(_, _)
Canonical(m, e) ==
    IF e > 0 /\ m % 10 = 0 THEN Canonical(m \div 10, e - 1) ELSE Num(m, e)

\* No quantity: the handler takes none.
NoQuantity == [kind |-> "none", m |-> 0, e |-> 0]

\* quantity=1.0, the default of add_to_cart_handler (304).
default_quantity == Num(1, 0)

VARIABLES
    catalog,     \* store: the ids of the products get_products returns
    carts,       \* store: carts[c] is the tg_id field of cart c
    items,       \* store: items[i] is cart item i (cart, product, quantity, status)
    orders,      \* store: the orders created, in the order of their creation
    state,       \* state[u]: the state of conversation u
    user_data,   \* user_data[k]: context.user_data of user k (products,
                 \* current_product), shared by the user's conversations
    rm,          \* the frame of the running remove_from_cart call
    obs,         \* SpecRemove's observer of that call
    last         \* what the last completed handler did

vars == <<catalog, carts, items, orders, state, user_data, rm, obs, last>>

\* ----------------------------------------------------------------- store
CartIds == 1..Len(carts)
ItemIds == 1..Len(items)

\* The documentId of cart item i: a key of its own, never equal to an id.
DocumentId(i) == i + 1000

\* The ids a remove button may carry.
DocIds == {DocumentId(i) : i \in 1..MaxItems}

\* The item a documentId names (0 when the store never held one).
ItemOf(d) == IF \E i \in ItemIds : DocumentId(i) = d
             THEN CHOOSE i \in ItemIds : DocumentId(i) = d
             ELSE 0

\* The carts a filtered query GET carts?filters[tg_id][$eq]=k matches.
CartsOf(k) == {c \in CartIds : carts[c] = k}

\* The items of cart c that are there, and those deleted of which reads
\* may still tell (a delete is not visible to every read at once).
CartLive(c) == {i \in ItemIds : items[i].cart = c /\ items[i].status = "live"}

CartStale(c) == {i \in ItemIds : items[i].cart = c /\ items[i].status = "stale"}

\* cart['cart_products'] as one read of cart c may return it.
CartReads(c) == {CartLive(c) \cup S : S \in SUBSET CartStale(c)}

\* The rows one point query for documentId d in cart c may return.
PointRows(c, d) == {R \cap {ItemOf(d)} : R \in CartReads(c)}

\* ------------------------------------------------------- backend answers
\* GET carts filtered by tg_id: a failed request, a 2xx answer without a
\* body, or the list of the matching carts.
CartAnswers(k) ==
    {"error"} \cup (IF CartsOf(k) = {} THEN {"empty_list", "no_content"} ELSE {"list"})

\* DELETE cart-products/{documentId}: the status the backend answers with.
DeleteAnswers(d) ==
    IF ItemOf(d) # 0 /\ items[ItemOf(d)].status = "live"
    THEN {"200", "500"}
    ELSE {"204", "404", "500"}

\* The store after the backend has answered a DELETE with `status`.
DeleteApplied(d, status) ==
    IF status = "200" /\ ItemOf(d) # 0
    THEN [items EXCEPT ![ItemOf(d)].status = "stale"]
    ELSE items

\* PUT carts/{id}: the status the backend answers with.
PutAnswers == {"200", "500"}

\* GET cart-products filtered by documentId and cart id.
PointAnswers == {"error", "list"}

\* ---------------------------------------------------------- StrapiClient
\* _make_request for DELETE: 200 and 204 are success, every other status
\* raises StrapiError.
MakeRequestDeleteAs404Ok(status) == status \in {"200", "204", "404"}

MakeRequestDelete(status) == status \in {"200", "204"}

\* get_cart: response.get('data', [None])[0].  cart = 0 stands for None.
get_cart(answer, k) ==
    CASE answer = "error" -> [exc |-> "StrapiError", cart |-> 0]
      [] answer = "no_content" -> [exc |-> "none", cart |-> 0]
      [] answer = "empty_list" -> [exc |-> "IndexError", cart |-> 0]
      [] OTHER -> [exc |-> "none",
                   cart |-> CHOOSE c \in CartsOf(k) : \A x \in CartsOf(k) : c <= x]

\* force_cart_refresh: the tg_id the PUT writes into cart cart_id.
force_cart_refresh(cart_id) == cart_id

\* verify_removal: len(response.get('data', [])) == 0 on the rows of the
\* point query; any exception is swallowed and gives FALSE.
verify_removal(answer, rows) == answer = "list" /\ Cardinality(rows) = 0

\* max_retries of StrapiClient.remove_from_cart and of the handler.
client_max_retries_plus_one == 3 + 1

client_max_retries == 3

handler_max_retries == 3

\* any(str(item.get('documentId')) == str(item_id) for item in cart_items)
\* in the handler before the loop (726), in the handler after the client's
\* call (752) and in the client (1106).
item_exists_Always(cart_items, d) == TRUE

item_exists(cart_items, d) == \E i \in cart_items : DocumentId(i) = d

item_still_exists_ById(cart_items, d) == \E i \in cart_items : i = d

item_still_exists(cart_items, d) == \E i \in cart_items : DocumentId(i) = d

client_item_exists(cart_items, d) == \E i \in cart_items : DocumentId(i) = d

\* view_cart: what it shows and the state it returns, from the answer to
\* its one cart query.
view_cart(answer, u) ==
    LET g == get_cart(answer, u) IN
    CASE g.exc = "StrapiError" -> [shown |-> "load_failed", next |-> HANDLE_MENU, cart |-> 0]
      [] g.exc # "none" -> [shown |-> "load_error", next |-> HANDLE_MENU, cart |-> 0]
      [] g.cart = 0 -> [shown |-> "empty_cart", next |-> HANDLE_MENU, cart |-> 0]
      [] OTHER -> [shown |-> "cart", next |-> HANDLE_CART, cart |-> g.cart]

\* item.get('product') of a cart item read: the relation is populated
\* while the store holds the product.
populated(i) == items[i].product \in catalog

\* How the answer carries the product of the items read: every one
\* populated, or, for those that are not, the key holding None ("null")
\* or no key at all ("absent").
ProductForms(cart_items) ==
    IF \A i \in cart_items : populated(i) THEN {"populated"} ELSE {"null", "absent"}

\* view_cart once its fetch returned the items: the log line of each item
\* (413-418) evaluates item.get('product', {}).get('id'), which raises
\* AttributeError when the key holds None; except Exception (517-527)
\* answers with the load error and HANDLE_MENU.
view_cart_items(v, form) ==
    IF v.shown = "cart" /\ form = "null"
    THEN [shown |-> "load_error", next |-> HANDLE_MENU, cart |-> 0]
    ELSE v

\* What the last completed handler did: what it showed, the answer to its
\* cart query, the cart it used and the quantity it was called with; for
\* a cart message, the items its fetch returned, its lines and its total;
\* for an email, the items the handler's cart query returned, the answer
\* to POST orders ("none": not sent), the items StrapiClient.create_order
\* read for the order and how the clear_cart calls ended.  raised: the
\* handler was left by an exception nothing caught, which the dispatcher
\* logs, leaving the state of the conversation as it was.
NoLast ==
    [handler |-> "none", shown |-> "none", answer |-> "none", cart |-> 0,
     quantity |-> NoQuantity, listed |-> {}, lines |-> {}, total |-> Num(0, 0),
     post |-> "none", submitted |-> {}, cleared |-> "none",
     raised |-> FALSE]

\* product['price'] of the products of the catalogue, in roubles.
price(p) == IF p = 1 THEN 300 ELSE 450

\* a + b and q * n on decimals.
Plus(a, b) ==
    LET e == IF a.e > b.e THEN a.e ELSE b.e
    IN Canonical(a.m * Pow10(e - a.e) + b.m * Pow10(e - b.e), e)

Times(q, n) == Canonical(q.m * n, q.e)

\* The first item of a list of cart items, which the backend returns in
\* the order of their ids.
first_cart_item(S) == CHOOSE i \in S : \A x \in S : i <= x

\* grouped_items[product_id]['total_quantity'] (439) over the items S of
\* one product.
RECURSIVE total_quantity(_)
total_quantity(S) ==
    IF S = {} THEN Num(0, 0)
    ELSE LET i == first_cart_item(S)
         IN Plus(items[i].quantity, total_quantity(S \ {i}))

\* grouped_items[product_id]['total_price'] (440).
RECURSIVE total_price_Unweighted(_)
total_price_Unweighted(S) ==
    IF S = {} THEN Num(0, 0)
    ELSE LET i == first_cart_item(S)
         IN Plus(Num(price(items[i].product), 0), total_price_Unweighted(S \ {i}))

RECURSIVE total_price(_)
total_price(S) ==
    IF S = {} THEN Num(0, 0)
    ELSE LET i == first_cart_item(S)
         IN Plus(Times(items[i].quantity, price(items[i].product)),
                 total_price(S \ {i}))

\* f"{total_quantity:.1f}".rstrip('0').rstrip('.') (455): the number the
\* text reads as.  A quantity with more than one decimal is rounded to
\* the nearest tenth; halfway between two tenths the text is the one or
\* the other, as the double nearest to the quantity falls (kind "tie",
\* m the lower tenth).
quantity_str(q) ==
    IF q.e <= 1 THEN q
    ELSE LET scale == Pow10(q.e - 1)
             tenths == q.m \div scale
             rest == q.m % scale
         IN CASE 2 * rest < scale -> Canonical(tenths, 1)
              [] 2 * rest > scale -> Canonical(tenths + 1, 1)
              [] OTHER -> [kind |-> "tie", m |-> tenths, e |-> 1]

\* The products of the items read, and the line and the remove button of
\* one of them (448-470).
grouped_items(cart_items) ==
    {items[i].product : i \in {j \in cart_items : populated(j)}}

cart_line(cart_items, p) ==
    LET group == {i \in cart_items : items[i].product = p} IN
    [product |-> p,
     quantity_str |-> quantity_str(total_quantity(group)),
     item_total |-> total_price(group),
     remove |-> DocumentId(first_cart_item(group))]

cart_lines(cart_items) == {cart_line(cart_items, p) : p \in grouped_items(cart_items)}

\* total += item_total over the lines (444, 452).
RECURSIVE cart_total(_)
cart_total(lines) ==
    IF lines = {} THEN Num(0, 0)
    ELSE LET l == CHOOSE x \in lines : TRUE
         IN Plus(l.item_total, cart_total(lines \ {l}))

\* What view_cart leaves behind: the message it sent for the answer and
\* the items of its fetch.
view_cart_shown(answer, u, cart_items, form) ==
    LET v == view_cart_items(view_cart(answer, u), form)
        lines == cart_lines(cart_items)
    IN IF v.shown = "cart"
       THEN [NoLast EXCEPT !.handler = "view_cart", !.shown = "cart",
                           !.answer = answer, !.cart = v.cart,
                           !.listed = cart_items, !.lines = lines,
                           !.total = cart_total(lines)]
       ELSE [NoLast EXCEPT !.handler = "view_cart", !.shown = v.shown,
                           !.answer = answer, !.listed = cart_items]

\* ------------------------------------------------------------ the frames
\* No remove_from_cart call is running.  While one runs: where it is (pc),
\* its arguments, the attempt of the handler's loop and of the client's
\* loop, cart['id'] inside the client, the answer to the last request and
\* whether that answer listed the item; afterwards: how the call ended and
\* the StrapiError it raised.
RmIdle ==
    [pc |-> "idle", user |-> 0, item |-> 0, attempt |-> 0, cattempt |-> 0,
     cart_id |-> 0, answer |-> "none", saw |-> "none", outcome |-> "none",
     raised |-> "none"]

\* The observer of a call: what the tap's own read told about the item;
\* the requests the call made; the DELETEs, the point
\* queries of verify_removal and the handler's re-fetches among them; which
\* verification read (point queries and re-fetches, in order) first
\* answered without the item; whether a later read listed it again;
\* whether a GET or a DELETE was answered with an error; whether a PUT
\* was answered 200.
NoObs ==
    [tapped |-> "none", calls |-> 0, deletes |-> 0, point_reads |-> 0, refetches |-> 0,
     first_absent |-> 0, flicker |-> FALSE, fault |-> FALSE, refreshed |-> FALSE,
     event |-> "none", arg |-> 0, chat |-> 0, was |-> END]

\* Whether the rows of an answer hold the item of documentId d.
Listed(rows, d) == \E i \in rows : DocumentId(i) = d

\* What a cart read tells about an item: nothing when no cart came back.
Saw(g, listed) ==
    IF g.exc # "none" \/ g.cart = 0 THEN "none"
    ELSE IF listed THEN "present" ELSE "absent"

\* The carts' contents a cart read may return once get_cart gave g.
ReadsOf(g) == IF g.exc = "none" /\ g.cart # 0 THEN CartReads(g.cart) ELSE {{}}

\* The call ends by raising StrapiError(msg) to handle_cart_actions, which
\* sends its error message and returns HANDLE_CART.
Raised(r, msg) == [r EXCEPT !.pc = "idle", !.outcome = "error", !.raised = msg]

\* except StrapiError inside the handler's loop (763-768): sleep and go to
\* the next attempt, or re-raise on the last one.
HandlerExcept(r, msg) ==
    IF r.attempt < handler_max_retries - 1
    THEN [r EXCEPT !.attempt = @ + 1, !.pc = "c_get_cart"]
    ELSE Raised(r, msg)

\* `continue` in the handler's loop (749, 759-761): the next attempt, or,
\* after the last one, the raise that follows the loop (770).
HandlerContinue(r) ==
    IF r.attempt < handler_max_retries - 1
    THEN [r EXCEPT !.attempt = @ + 1, !.pc = "c_get_cart"]
    ELSE Raised(r, "Could not remove item after all attempts")

\* except StrapiError inside the client's loop (1138-1143).
ClientExcept(r, msg) ==
    IF r.cattempt < client_max_retries - 1
    THEN [r EXCEPT !.cattempt = @ + 1, !.pc = "c_delete"]
    ELSE HandlerExcept(r, msg)

\* The client's loop after a verification that still shows the item
\* (1133-1136, 1145).
ClientContinue(r) ==
    IF r.cattempt < client_max_retries - 1
    THEN [r EXCEPT !.cattempt = @ + 1, !.pc = "c_delete"]
    ELSE HandlerExcept(r, "Could not remove item after all attempts")

\* updater.start_polling() feeds one dispatcher thread, and main registers
\* no handler with run_async: an update of any chat is dispatched when the
\* handler of the update before it has returned, the sleeps of a removal
\* included.
dispatcher_idle_Always == TRUE

dispatcher_idle == rm.pc = "idle"

\* -------------------------------------------------------------- backend
\* A delete has reached every read.
Propagate(i) ==
    /\ i \in ItemIds
    /\ items[i].status = "stale"
    /\ items' = [items EXCEPT ![i].status = "gone"]
    /\ UNCHANGED <<catalog, orders, carts, state, user_data, rm, last>>

\* The products the shop's owner can put on sale.
Products == {1, 2}

\* The owner edits the products of the store; no session is told.
EditCatalog(cat) ==
    /\ cat \in SUBSET Products
    /\ cat # catalog
    /\ catalog' = cat
    /\ UNCHANGED <<orders, carts, items, state, user_data, rm, last>>

\* ------------------------------------------------------ remove_from_cart
\* handle_cart_actions on 'remove_<item_id>' calls remove_from_cart, which
\* fetches the cart and checks that the item is in it (715-729).
RemoveTap(u, d) ==
    /\ dispatcher_idle
    /\ state[u] = HANDLE_CART
    /\ \E a \in CartAnswers(tg_id(u)) :
         LET g == get_cart(a, tg_id(u)) IN
         \E cart_items \in ReadsOf(g) :
           LET r == [RmIdle EXCEPT !.user = u, !.item = d, !.answer = a,
                                   !.saw = Saw(g, Listed(cart_items, d))]
           IN rm' = CASE g.exc = "StrapiError" -> Raised(r, "API request failed")
                      [] g.exc # "none" -> Raised(r, "Failed to remove item")
                      [] g.cart = 0 -> Raised(r, "Cart not found")
                      [] ~ item_exists(cart_items, d) ->
                           Raised(r, "Item not found in cart")
                      [] OTHER -> [r EXCEPT !.pc = "c_get_cart"]
    /\ last' = NoLast
    /\ UNCHANGED <<catalog, orders, carts, items, state, user_data>>

\* StrapiClient.remove_from_cart: fetch the cart, check the item (1096-1109).
ClientGetCart ==
    /\ rm.pc = "c_get_cart"
    /\ \E a \in CartAnswers(tg_id(rm.user)) :
         LET g == get_cart(a, tg_id(rm.user)) IN
         \E cart_items \in ReadsOf(g) :
           LET r == [rm EXCEPT !.answer = a,
                               !.saw = Saw(g, Listed(cart_items, rm.item))]
           IN rm' = CASE g.exc = "StrapiError" -> HandlerExcept(r, "API request failed")
                      [] g.exc # "none" -> HandlerExcept(r, "Failed to remove item")
                      [] g.cart = 0 -> HandlerExcept(r, "Cart not found")
                      [] ~ client_item_exists(cart_items, rm.item) ->
                           HandlerExcept(r, "Item not found in cart")
                      [] OTHER -> [r EXCEPT !.pc = "c_delete", !.cattempt = 0,
                                            !.cart_id = g.cart]
    /\ UNCHANGED <<catalog, orders, carts, items, state, user_data, last>>

\* self._make_request('DELETE', f'cart-products/{item_id}') (1120).
ClientDelete ==
    /\ rm.pc = "c_delete"
    /\ \E s \in DeleteAnswers(rm.item) :
         LET r == [rm EXCEPT !.answer = s, !.saw = "none"] IN
         /\ items' = DeleteApplied(rm.item, s)
         /\ rm' = IF MakeRequestDelete(s)
                  THEN [r EXCEPT !.pc = "c_refresh"]
                  ELSE ClientExcept(r, "API request failed")
    /\ UNCHANGED <<catalog, orders, carts, state, user_data, last>>

\* self.force_cart_refresh(cart_id) (1123): a failed PUT is swallowed.
ClientRefresh ==
    /\ rm.pc = "c_refresh"
    /\ \E s \in PutAnswers :
         /\ carts' = IF s = "200"
                     THEN [carts EXCEPT ![rm.cart_id] = force_cart_refresh(rm.cart_id)]
                     ELSE carts
         /\ rm' = [rm EXCEPT !.answer = s, !.saw = "none", !.pc = "c_verify"]
    /\ UNCHANGED <<catalog, orders, items, state, user_data, last>>

\* self.verify_removal(cart_id, item_id) (1129).
ClientVerify ==
    /\ rm.pc = "c_verify"
    /\ \E a \in PointAnswers, rows \in PointRows(rm.cart_id, rm.item) :
         LET r == [rm EXCEPT !.answer = a,
                             !.saw = IF a # "list" THEN "none"
                                     ELSE IF rows = {} THEN "absent" ELSE "present"]
         IN rm' = IF verify_removal(a, rows)
                  THEN [r EXCEPT !.pc = "h_verify"]
                  ELSE ClientContinue(r)
    /\ UNCHANGED <<catalog, orders, carts, items, state, user_data, last>>

\* The handler's own verification: cart_after = strapi.get_cart(...) (746-761).
HandlerVerify ==
    /\ rm.pc = "h_verify"
    /\ \E a \in CartAnswers(tg_id(rm.user)) :
         LET g == get_cart(a, tg_id(rm.user)) IN
         \E cart_items \in ReadsOf(g) :
           LET r == [rm EXCEPT !.answer = a,
                               !.saw = Saw(g, Listed(cart_items, rm.item))]
           IN rm' = CASE g.exc = "StrapiError" -> HandlerExcept(r, "API request failed")
                      [] g.exc # "none" -> Raised(r, "Failed to remove item")
                      [] g.cart = 0 -> HandlerContinue(r)
                      [] item_still_exists(cart_items, rm.item) -> HandlerContinue(r)
                      [] OTHER -> [r EXCEPT !.pc = "h_view"]
    /\ UNCHANGED <<catalog, orders, carts, items, state, user_data, last>>

\* return view_cart(update, context) (756).
HandlerView ==
    /\ rm.pc = "h_view"
    /\ \E a \in CartAnswers(tg_id(rm.user)) :
         \E cart_items \in ReadsOf(get_cart(a, tg_id(rm.user))) :
           \E form \in ProductForms(cart_items) :
             LET v == view_cart_items(view_cart(a, tg_id(rm.user)), form) IN
             /\ rm' = [rm EXCEPT !.answer = a, !.saw = "none", !.pc = "idle",
                                 !.outcome = IF v.shown = "cart" THEN "rendered"
                                             ELSE v.shown]
             /\ state' = [state EXCEPT ![rm.user] = v.next]
             /\ last' = view_cart_shown(a, tg_id(rm.user), cart_items, form)
    /\ UNCHANGED <<catalog, orders, carts, items, user_data>>

RemoveStep ==
    \/ ClientGetCart
    \/ ClientDelete
    \/ ClientRefresh
    \/ ClientVerify
    \/ HandlerVerify
    \/ HandlerView

\* The observer after a step of the call from frame r to frame r2.
Observed(o, r, r2) ==
    LET verification == r.pc \in {"c_verify", "h_verify"}
        o2 == [o EXCEPT
                 !.tapped = IF r.pc = "idle" THEN r2.saw ELSE @,
                 !.calls = @ + 1,
                 !.deletes = IF r.pc = "c_delete" THEN @ + 1 ELSE @,
                 !.point_reads = IF r.pc = "c_verify" THEN @ + 1 ELSE @,
                 !.refetches = IF r.pc = "h_verify" THEN @ + 1 ELSE @,
                 !.flicker = @ \/ (o.first_absent # 0 /\ r2.saw = "present"),
                 !.fault = @ \/ (r.pc # "c_refresh" /\
                                 r2.answer \in {"error", "404", "500"}),
                 !.refreshed = @ \/ (r.pc = "c_refresh" /\ r2.answer = "200")]
    IN IF verification /\ r2.saw = "absent" /\ o.first_absent = 0
       THEN [o2 EXCEPT !.first_absent = o2.point_reads + o2.refetches]
       ELSE o2

\* ------------------------------------------------------------ quantities
\* Texts are sequences of characters.  The alphabet of the model: digits,
\* the separators ',' and '.', the signs, and letters; float() also reads
\* exponents, blanks and underscores, which no text of the model holds.
Digits == {"0", "1", "2", "3", "4", "5", "6", "7", "8", "9"}

DigitValue(c) ==
    CASE c = "0" -> 0 [] c = "1" -> 1 [] c = "2" -> 2 [] c = "3" -> 3
      [] c = "4" -> 4 [] c = "5" -> 5 [] c = "6" -> 6 [] c = "7" -> 7
      [] c = "8" -> 8 [] OTHER -> 9

\* text.replace(',', '.')
ReplaceComma(t) == [i \in 1..Len(t) |-> IF t[i] = "," THEN "." ELSE t[i]]

\* The value of a string of digits (the dot left out).
RECURSIVE DigitsValue(_)
DigitsValue(t) ==
    IF t = <<>> THEN 0
    ELSE 10 * DigitsValue(SubSeq(t, 1, Len(t) - 1)) + DigitValue(t[Len(t)])

\* float(t): [ok |-> FALSE] is ValueError.
float(t) ==
    LET signed == Len(t) > 0 /\ t[1] \in {"+", "-"}
        sign == IF signed /\ t[1] = "-" THEN -1 ELSE 1
        body == IF signed THEN SubSeq(t, 2, Len(t)) ELSE t
        dots == {i \in 1..Len(body) : body[i] = "."}
        digs == SelectSeq(body, LAMBDA c : c # ".")
        frac == IF dots = {} THEN 0 ELSE Len(body) - (CHOOSE i \in dots : TRUE)
    IN CASE body = <<"n", "a", "n">> -> [ok |-> TRUE, v |-> NaN]
         [] body = <<"i", "n", "f">> -> [ok |-> TRUE, v |-> Inf(sign)]
         [] /\ digs # <<>>
            /\ \A i \in 1..Len(digs) : digs[i] \in Digits
            /\ Cardinality(dots) <= 1 ->
              [ok |-> TRUE, v |-> Canonical(sign * DigitsValue(digs), frac)]
         [] OTHER -> [ok |-> FALSE, v |-> NaN]

\* qty <= 0, qty < 0.1, qty > 50 on floats: every comparison with nan is
\* false.
LeZero(q) ==
    CASE q.kind = "num" -> q.m <= 0
      [] q.kind = "inf" -> q.m < 0
      [] OTHER -> FALSE

LtTenth(q) ==
    CASE q.kind = "num" -> q.m * 10 < Pow10(q.e)
      [] q.kind = "inf" -> q.m < 0
      [] OTHER -> FALSE

GtFifty_Hundred(q) ==
    CASE q.kind = "num" -> q.m > 100 * Pow10(q.e)
      [] q.kind = "inf" -> q.m > 0
      [] OTHER -> FALSE

GtFifty(q) ==
    CASE q.kind = "num" -> q.m > 50 * Pow10(q.e)
      [] q.kind = "inf" -> q.m > 0
      [] OTHER -> FALSE

\* The checks of handle_custom_quantity on the text of the message
\* (255-278, 296-301): the reply of a rejection, or "accepted".
custom_quantity_check_NoMinimum(text) ==
    LET f == float(ReplaceComma(text)) IN
    CASE ~ f.ok -> "bad_format"
      [] LeZero(f.v) -> "not_positive"
      [] GtFifty(f.v) -> "above_max"
      [] OTHER -> "accepted"

custom_quantity_check(text) ==
    LET f == float(ReplaceComma(text)) IN
    CASE ~ f.ok -> "bad_format"
      [] LeZero(f.v) -> "not_positive"
      [] LtTenth(f.v) -> "below_min"
      [] GtFifty(f.v) -> "above_max"
      [] OTHER -> "accepted"

\* The quantities of the keyboard of ask_quantity (203-206).
PresetTexts ==
    {<<"0", ".", "5">>, <<"1", ".", "0">>, <<"1", ".", "5">>, <<"2", ".", "0">>}

\* The texts a user sends as a quantity.
QuantityTexts ==
    {<<"0", ",", "0", "5">>, <<"0", ".", "1">>, <<"5", "0">>,
     <<"5", "0", ".", "1">>, <<"1", ",", "5">>, <<"a", "b", "c">>,
     <<"n", "a", "n">>, <<"-", "1">>, <<"0">>, <<"i", "n", "f">>, <<>>,
     <<"1", ".", "5", ".", "5">>}

\* ----------------------------------------------------- the other handlers
\* GET products: a failed request or the catalogue.
ProductsAnswers == {"error", "list"}

\* POST carts: refused, or a new cart (while the store has room for one).
CreateAnswers == IF Len(carts) < MaxCarts THEN {"created", "error"} ELSE {"error"}

\* possible_endpoints of add_to_cart (1018-1023), by position.
possible_endpoints == 1..4

\* POST of a cart item: the endpoints that would answer 2xx.  JSON has no
\* nan, so a request carrying one is refused on every endpoint.
PostAnswers(q) ==
    IF Len(items) < MaxItems /\ q.kind = "num" THEN SUBSET possible_endpoints ELSE {{}}

\* The product ids a button may carry: those a catalogue may hold and one
\* that none does.
ProductRefs == 1..3

\* int(product_id_str) on a text of the model: an optional sign and
\* decimal digits; [ok |-> FALSE] is ValueError.
int(t) ==
    LET signed == Len(t) > 0 /\ t[1] \in {"+", "-"}
        sign == IF signed /\ t[1] = "-" THEN -1 ELSE 1
        body == IF signed THEN SubSeq(t, 2, Len(t)) ELSE t
    IN IF body # <<>> /\ \A i \in 1..Len(body) : body[i] \in Digits
       THEN [ok |-> TRUE, v |-> sign * DigitsValue(body)]
       ELSE [ok |-> FALSE, v |-> 0]

\* get_selected_product for a parsed id: the product of the session's
\* snapshot, if any (788-789).
get_selected_product_Live(pid, ud) == pid \in catalog

get_selected_product(pid, ud) == pid \in ud.products

\* get_selected_product (781-789) for the text of a button: None when
\* int() raises ValueError.
get_selected_product_str(t, ud) ==
    int(t).ok /\ get_selected_product(int(t).v, ud)

\* The data of a product button (str(product['id'])) for products on sale
\* or not, numerals int() reads as the same ids, and data that is no id.
ProductTexts ==
    {<<"1">>, <<"2">>, <<"3">>, <<"0", "1">>, <<"+", "2">>, <<"-", "1">>,
     <<"1", ".", "0">>, <<"a">>, <<"1", "a">>, <<>>}

\* start (46-95): next state and context.user_data['products'].
start(aP, ud) ==
    IF aP = "error"
    THEN [next |-> END, ud |-> ud, raised |-> FALSE, shown |-> "start_failed"]
    ELSE [next |-> HANDLE_MENU, ud |-> [ud EXCEPT !.products = catalog],
          raised |-> FALSE, shown |-> "welcome"]

\* show_products_list (98-130): get_products is not guarded, so a failed
\* request leaves the handler by an exception and the state as it was.
show_products_list_Merged(aP, ud, cur) ==
    IF aP = "error"
    THEN [next |-> cur, ud |-> ud, raised |-> TRUE, shown |-> "none"]
    ELSE [next |-> HANDLE_MENU, ud |-> [ud EXCEPT !.products = @ \cup catalog],
          raised |-> FALSE, shown |-> "products"]

show_products_list(aP, ud, cur) ==
    IF aP = "error"
    THEN [next |-> cur, ud |-> ud, raised |-> TRUE, shown |-> "none"]
    ELSE [next |-> HANDLE_MENU, ud |-> [ud EXCEPT !.products = catalog],
          raised |-> FALSE, shown |-> "products"]

\* StrapiClient.add_to_cart (1033-1043): the endpoints whose POST created
\* an item, given the set S of endpoints that answer 2xx: the loop returns
\* at the first success.
add_to_cart_AllEndpoints(S) == S

add_to_cart(S) == IF S = {} THEN {} ELSE {CHOOSE e \in S : \A x \in S : e <= x}

\* `seq` with n copies of `x` appended.
RECURSIVE AppendN(_, _, _)
AppendN(seq, n, x) == IF n = 0 THEN seq ELSE AppendN(Append(seq, x), n - 1, x)

\* add_to_cart_handler (304-374) for product id pid and quantity q, called
\* for a button (callback) or for a text message.
add_to_cart_handler(u, pid, q, callback) ==
    \E aC \in CartAnswers(tg_id(u)), aNew \in CreateAnswers, S \in PostAnswers(q) :
      LET ud == user_data[tg_id(u)]
          found == get_selected_product(pid, ud)
          g == get_cart(aC, tg_id(u))
          created == found /\ g.exc = "none" /\ g.cart = 0 /\ aNew = "created"
          cart_id == IF created THEN Len(carts) + 1 ELSE g.cart
          have == found /\ g.exc = "none" /\ cart_id # 0
          posted == IF have THEN add_to_cart(S) ELSE {}
          ok == posted # {}
          done == [NoLast EXCEPT
                     !.handler = "add_to_cart_handler",
                     !.shown = IF ok THEN "added" ELSE "add_failed",
                     !.answer = IF found THEN aC ELSE "none",
                     !.cart = IF have THEN cart_id ELSE 0,
                     !.quantity = q]
      IN /\ carts' = IF created THEN Append(carts, tg_id(u)) ELSE carts
         /\ items' = AppendN(items, Cardinality(posted),
                             [cart |-> cart_id, product |-> pid, quantity |-> q,
                              status |-> "live", by |-> tg_id(u)])
         /\ IF ok
            THEN /\ state' = [state EXCEPT ![u] = HANDLE_MENU]
                 /\ last' = done
                 /\ UNCHANGED user_data
            ELSE \E aP \in ProductsAnswers :
                   LET back == IF callback
                               THEN show_products_list(aP, ud, state[u])
                               ELSE start(aP, ud)
                   IN /\ state' = [state EXCEPT ![u] = back.next]
                      /\ user_data' = [user_data EXCEPT ![tg_id(u)] = back.ud]
                      /\ last' = [done EXCEPT !.raised = back.raised]
         /\ rm' = RmIdle
         /\ UNCHANGED <<catalog, orders>>

\* /start, the entry point and the fallback of the conversation.
Start(u) ==
    /\ dispatcher_idle
    /\ \E aP \in ProductsAnswers :
         LET r == start(aP, user_data[tg_id(u)]) IN
         /\ state' = [state EXCEPT ![u] = r.next]
         /\ user_data' = [user_data EXCEPT ![tg_id(u)] = r.ud]
         /\ last' = [NoLast EXCEPT !.handler = "start", !.shown = r.shown]
    /\ rm' = RmIdle
    /\ UNCHANGED <<catalog, orders, carts, items>>

\* 'show_products' in handle_product_selection / handle_cart_actions.
ShowProductsList(u) ==
    /\ dispatcher_idle
    /\ state[u] \in {HANDLE_MENU, HANDLE_CART}
    /\ \E aP \in ProductsAnswers :
         LET r == show_products_list(aP, user_data[tg_id(u)], state[u]) IN
         /\ state' = [state EXCEPT ![u] = r.next]
         /\ user_data' = [user_data EXCEPT ![tg_id(u)] = r.ud]
         /\ last' = [NoLast EXCEPT !.handler = "show_products_list",
                                   !.shown = r.shown, !.raised = r.raised]
    /\ rm' = RmIdle
    /\ UNCHANGED <<catalog, orders, carts, items>>

\* 'view_cart' in handle_product_selection.
ViewCart(u) ==
    /\ dispatcher_idle
    /\ state[u] = HANDLE_MENU
    /\ \E a \in CartAnswers(tg_id(u)) :
         \E cart_items \in ReadsOf(get_cart(a, tg_id(u))) :
           \E form \in ProductForms(cart_items) :
             LET v == view_cart_items(view_cart(a, tg_id(u)), form) IN
             /\ state' = [state EXCEPT ![u] = v.next]
             /\ last' = view_cart_shown(a, tg_id(u), cart_items, form)
    /\ rm' = RmIdle
    /\ UNCHANGED <<catalog, orders, carts, items, user_data>>

\* 'add_<id>' in handle_product_selection: ask_quantity (192-212).
AskQuantity_NoStore(u, pid) ==
    /\ dispatcher_idle
    /\ state[u] = HANDLE_MENU
    /\ state' = [state EXCEPT ![u] = HANDLE_QUANTITY]
    /\ last' = [NoLast EXCEPT !.handler = "ask_quantity"]
    /\ rm' = RmIdle
    /\ UNCHANGED <<catalog, orders, carts, items, user_data>>

AskQuantity(u, pid) ==
    /\ dispatcher_idle
    /\ state[u] = HANDLE_MENU
    /\ state' = [state EXCEPT ![u] = HANDLE_QUANTITY]
    /\ user_data' = [user_data EXCEPT ![tg_id(u)].current_product = pid]
    /\ last' = [NoLast EXCEPT !.handler = "ask_quantity"]
    /\ rm' = RmIdle
    /\ UNCHANGED <<catalog, orders, carts, items>>

\* 'qty_<q>_<id>' in handle_quantity_selection (239-241); the keyboard is
\* the one ask_quantity drew for current_product.
QuantityTap(u, t) ==
    /\ dispatcher_idle
    /\ state[u] = HANDLE_QUANTITY
    /\ add_to_cart_handler(u, user_data[tg_id(u)].current_product, float(t).v, TRUE)

\* 'cancel_qty' in handle_quantity_selection (231-236): ask_quantity again
\* for current_product, which stores it and draws the quantity keyboard;
\* show_products_list when the session holds none (0 here).
CancelQuantity(u) ==
    /\ dispatcher_idle
    /\ state[u] = HANDLE_QUANTITY
    /\ LET ud == user_data[tg_id(u)]
           product_id == ud.current_product
       IN IF product_id # 0
          THEN /\ state' = [state EXCEPT ![u] = HANDLE_QUANTITY]
               /\ user_data' = [user_data EXCEPT ![tg_id(u)].current_product = product_id]
               /\ last' = [NoLast EXCEPT !.handler = "cancel_qty",
                                         !.shown = "ask_quantity"]
          ELSE \E aP \in ProductsAnswers :
                 LET r == show_products_list(aP, ud, state[u]) IN
                 /\ state' = [state EXCEPT ![u] = r.next]
                 /\ user_data' = [user_data EXCEPT ![tg_id(u)] = r.ud]
                 /\ last' = [NoLast EXCEPT !.handler = "cancel_qty",
                                           !.shown = r.shown, !.raised = r.raised]
    /\ rm' = RmIdle
    /\ UNCHANGED <<catalog, orders, carts, items>>

\* handle_custom_quantity (253-301) on a message with text t.
CustomQuantity(u, t) ==
    /\ dispatcher_idle
    /\ state[u] = HANDLE_QUANTITY
    /\ LET check == custom_quantity_check(t)
           pid == user_data[tg_id(u)].current_product
       IN IF check # "accepted"
          THEN /\ last' = [NoLast EXCEPT !.handler = "handle_custom_quantity",
                                         !.shown = check]
               /\ rm' = RmIdle
               /\ UNCHANGED <<catalog, orders, carts, items, state, user_data>>
          ELSE IF pid = 0
          THEN \E aP \in ProductsAnswers :
                 LET r == start(aP, user_data[tg_id(u)]) IN
                 /\ state' = [state EXCEPT ![u] = r.next]
                 /\ user_data' = [user_data EXCEPT ![tg_id(u)] = r.ud]
                 /\ last' = [NoLast EXCEPT !.handler = "handle_custom_quantity",
                                           !.shown = "no_product"]
                 /\ rm' = RmIdle
                 /\ UNCHANGED <<catalog, orders, carts, items>>
          ELSE add_to_cart_handler(u, pid, float(ReplaceComma(t)).v, FALSE)

\* 'main_menu': handle_product_selection (165), handle_cart_actions (536)
\* and the states of main (1332-1347) call start.  handle_quantity_selection
\* has no branch for it: the data goes to get_selected_product, which finds
\* no product for a text that is no number (0 here), and show_products_list
\* follows (243-250).
MainMenu(u) ==
    /\ dispatcher_idle
    /\ state[u] # END
    /\ \E aP \in ProductsAnswers :
         LET ud == user_data[tg_id(u)]
             r == IF state[u] = HANDLE_QUANTITY /\ ~ get_selected_product(0, ud)
                  THEN show_products_list(aP, ud, state[u])
                  ELSE start(aP, ud)
         IN /\ state' = [state EXCEPT ![u] = r.next]
            /\ user_data' = [user_data EXCEPT ![tg_id(u)] = r.ud]
            /\ last' = [NoLast EXCEPT !.handler = "main_menu", !.shown = r.shown,
                                      !.raised = r.raised]
    /\ rm' = RmIdle
    /\ UNCHANGED <<catalog, orders, carts, items>>

\* A tap on a product button with data t in handle_product_selection
\* (177-189): the product's details, or 'product not found'.
ProductTap(u, t) ==
    /\ dispatcher_idle
    /\ state[u] = HANDLE_MENU
    /\ state' = [state EXCEPT ![u] = HANDLE_MENU]
    /\ last' = [NoLast EXCEPT
                  !.handler = "handle_product_selection",
                  !.shown = IF get_selected_product_str(t, user_data[tg_id(u)])
                            THEN "product_details" ELSE "product_not_found"]
    /\ rm' = RmIdle
    /\ UNCHANGED <<catalog, orders, carts, items, user_data>>

\* -------------------------------------------------------------- ordering
\* checkout (558-602) for the cart g and the items its query returned.
\* get_cart is not guarded: an exception leaves the handler and the state
\* as it was.
checkout(g, cart_items, cur) ==
    CASE g.exc # "none" -> [next |-> cur, shown |-> "none"]
      [] g.cart = 0 \/ cart_items = {} -> [next |-> HANDLE_MENU, shown |-> "cart_is_empty"]
      [] OTHER -> [next |-> WAITING_EMAIL, shown |-> "ask_email"]

\* 'checkout' in HANDLE_CART.
Checkout(u) ==
    /\ dispatcher_idle
    /\ state[u] = HANDLE_CART
    /\ \E a \in CartAnswers(tg_id(u)) :
         LET g == get_cart(a, tg_id(u)) IN
         \E cart_items \in ReadsOf(g) :
           LET r == checkout(g, cart_items, state[u]) IN
           /\ state' = [state EXCEPT ![u] = r.next]
           /\ last' = [NoLast EXCEPT !.handler = "checkout", !.shown = r.shown,
                                     !.answer = a, !.listed = cart_items,
                                     !.raised = (r.shown = "none")]
    /\ rm' = RmIdle
    /\ UNCHANGED <<catalog, orders, carts, items, user_data>>

\* str.strip() on a text whose only white space is the blank.
RECURSIVE strip(_)
strip(t) ==
    IF t # <<>> /\ t[1] = " " THEN strip(Tail(t))
    ELSE IF t # <<>> /\ t[Len(t)] = " " THEN strip(SubSeq(t, 1, Len(t) - 1))
    ELSE t

\* re.match(r"[^@]+@[^@]+\.[^@]+", email) (682): the pattern has to match
\* from the first character on, not up to the last one.
email_match_Always(email) == TRUE

email_match(email) ==
    \E a, d \in 1..Len(email) :
      /\ a > 1
      /\ email[a] = "@"
      /\ \A i \in 1..(a - 1) : email[i] # "@"
      /\ d > a + 1
      /\ email[d] = "."
      /\ \A i \in (a + 1)..(d - 1) : email[i] # "@"
      /\ d < Len(email)
      /\ email[d + 1] # "@"

\* The texts a user sends as an email.
EmailTexts ==
    {<<"u", "s", "e", "r", "@", "e", "x", "a", "m", "p", "l", "e", ".", "c", "o", "m">>,
     <<"b", "a", "d", "-", "e", "m", "a", "i", "l">>,
     <<" ", "a", "@", "b", ".", "c", " ">>,
     <<"a", "@", "b", ".", "c", "@", "d">>,
     <<"a", "@", "b">>,
     <<"@", "b", ".", "c">>,
     <<"a", "@", ".", "c">>,
     <<"a", "@", "b", ".">>,
     <<"a", "@", "@", "b", ".", "c">>,
     <<>>}

\* POST orders: refused, answered 2xx without data, or a new order (while
\* the store has room for one).
OrderAnswers ==
    IF Len(orders) < MaxOrders THEN {"created", "no_data", "error"}
    ELSE {"no_data", "error"}

\* total of StrapiClient.create_order (1226-1229).
RECURSIVE order_total(_)
order_total(cart_items) ==
    IF cart_items = {} THEN Num(0, 0)
    ELSE LET i == first_cart_item(cart_items)
         IN Plus(Times(items[i].quantity, price(items[i].product)),
                 order_total(cart_items \ {i}))

\* order_data (1233-1242); cart_products.connect holds the items' ids.
order_data_NoLines(email, cart_items) ==
    [email |-> email, order_status |-> "new", total |-> order_total(cart_items),
     cart_products |-> {}]

order_data(email, cart_items) ==
    [email |-> email, order_status |-> "new", total |-> order_total(cart_items),
     cart_products |-> cart_items]

\* StrapiClient.clear_cart (1290-1308) for the cart g and the items its
\* query returned: a failed query raises StrapiError, no cart is success,
\* and a DELETE that fails is skipped.  `applied` are the items whose
\* DELETE the backend applies; `issued` the items a DELETE was sent for.
clear_cart(g, cart_items, applied) ==
    CASE g.exc # "none" -> [raised |-> TRUE, deleted |-> {}, issued |-> {}]
      [] g.cart = 0 -> [raised |-> FALSE, deleted |-> {}, issued |-> {}]
      [] OTHER -> [raised |-> FALSE, deleted |-> cart_items \cap applied,
                   issued |-> cart_items]

\* cart['cart_products'] as a read of the cart of g may return it once
\* the items D have been deleted.
ReadsAfter(g, D) ==
    IF g.exc = "none" /\ g.cart # 0
    THEN {(CartLive(g.cart) \ D) \cup S :
            S \in SUBSET (CartStale(g.cart) \cup (CartLive(g.cart) \cap D))}
    ELSE {{}}

\* The store's items once the DELETEs of D have been applied.
Deleted(D) ==
    [i \in ItemIds |-> IF i \in D /\ items[i].status = "live"
                       THEN [items[i] EXCEPT !.status = "stale"]
                       ELSE items[i]]

\* StrapiClient.create_order (1213-1288) for the cart g and the items its
\* query returned, the answer aO to POST orders and the result c of its
\* clear_cart: whether it raises StrapiError, whether the POST was sent,
\* and whether the store holds a new order.
strapi_create_order(g, cart_items, aO, c) ==
    CASE g.exc # "none" \/ g.cart = 0 \/ cart_items = {} ->
           [raised |-> TRUE, post |-> "none", created |-> FALSE]
      [] aO # "created" -> [raised |-> TRUE, post |-> aO, created |-> FALSE]
      [] OTHER -> [raised |-> c.raised, post |-> aO, created |-> TRUE]

\* create_order (605-673) called by handle_email (693): the reply and the
\* next state, for the cart g and the items its own query returned, the
\* result r of StrapiClient.create_order and the result c of the
\* handler's clear_cart.
create_order(g, cart_items, r, c) ==
    CASE g.exc # "none" -> [next |-> HANDLE_MENU, shown |-> "save_error"]
      [] g.cart = 0 \/ cart_items = {} -> [next |-> HANDLE_MENU, shown |-> "cart_is_empty"]
      [] r.raised \/ c.raised -> [next |-> HANDLE_MENU, shown |-> "order_failed"]
      [] OTHER -> [next |-> HANDLE_MENU, shown |-> "thanks"]

\* No call: the result that is not looked at.
NotCalled == [raised |-> FALSE, deleted |-> {}, issued |-> {}]

\* handle_email (676-704) on a message with text t.
HandleEmail(u, t) ==
    /\ dispatcher_idle
    /\ state[u] = WAITING_EMAIL
    /\ rm' = RmIdle
    /\ UNCHANGED <<catalog, carts, user_data>>
    /\ LET email == strip(t)
           k == tg_id(u)
           Reply(a, listed, rep, post, submitted, cleared) ==
               /\ state' = [state EXCEPT ![u] = rep.next]
               /\ last' = [NoLast EXCEPT !.handler = "handle_email",
                                         !.shown = rep.shown, !.answer = a,
                                         !.listed = listed, !.post = post,
                                         !.submitted = submitted,
                                         !.cleared = cleared]
       IN IF ~ email_match(email)
          THEN /\ Reply("none", {}, [next |-> WAITING_EMAIL, shown |-> "bad_email"],
                        "none", {}, "none")
               /\ UNCHANGED <<items, orders>>
          ELSE \E a1 \in CartAnswers(k) :
            LET g1 == get_cart(a1, k) IN
            \E items1 \in ReadsOf(g1) :
              IF g1.exc # "none" \/ g1.cart = 0 \/ items1 = {}
              THEN /\ Reply(a1, items1,
                            create_order(g1, items1, NotCalled, NotCalled),
                            "none", {}, "none")
                   /\ UNCHANGED <<items, orders>>
              ELSE \E a2 \in CartAnswers(k), aO \in OrderAnswers :
                LET g2 == get_cart(a2, k) IN
                \E items2 \in ReadsOf(g2) :
                  LET r0 == strapi_create_order(g2, items2, aO, NotCalled) IN
                  IF ~ r0.created
                  THEN /\ Reply(a1, items1,
                                create_order(g1, items1, r0, NotCalled),
                                r0.post, {}, "none")
                       /\ UNCHANGED <<items, orders>>
                  ELSE \E a3 \in CartAnswers(k), D3 \in SUBSET CartLive(g2.cart) :
                    LET g3 == get_cart(a3, k) IN
                    \E items3 \in ReadsOf(g3) :
                      LET c3 == clear_cart(g3, items3, D3)
                          r == strapi_create_order(g2, items2, aO, c3)
                      IN IF r.raised
                         THEN /\ Reply(a1, items1,
                                       create_order(g1, items1, r, NotCalled),
                                       r.post, items2, "client_raised")
                              /\ orders' = Append(orders, order_data(email, items2))
                              /\ items' = Deleted(c3.deleted)
                         ELSE \E a4 \in CartAnswers(k),
                                 D4 \in SUBSET (CartLive(g2.cart) \ c3.deleted) :
                           LET g4 == get_cart(a4, k) IN
                           \E items4 \in ReadsAfter(g4, c3.deleted) :
                             LET c4 == clear_cart(g4, items4, D4) IN
                             /\ Reply(a1, items1,
                                      create_order(g1, items1, r, c4),
                                      r.post, items2,
                                      IF c4.raised THEN "handler_raised" ELSE "done")
                             /\ orders' = Append(orders, order_data(email, items2))
                             /\ items' = Deleted(c3.deleted \cup c4.deleted)

\* StrapiClient.clear_cart(tg_id) as a call of its own (create_order makes
\* it at 640, StrapiClient.create_order at 1252): last keeps the answer to
\* its cart query, the items it read (listed), the items it sent a DELETE
\* for (submitted) and how it ended (cleared).
ClearCart(u) ==
    /\ dispatcher_idle
    /\ \E a \in CartAnswers(tg_id(u)) :
         LET g == get_cart(a, tg_id(u)) IN
         \E cart_items \in ReadsOf(g), D \in SUBSET CartLive(g.cart) :
           LET c == clear_cart(g, cart_items, D) IN
           /\ items' = Deleted(c.deleted)
           /\ last' = [NoLast EXCEPT !.handler = "clear_cart", !.answer = a,
                                     !.listed = cart_items,
                                     !.submitted = c.issued,
                                     !.cleared = IF c.raised THEN "client_raised"
                                                 ELSE "done"]
    /\ rm' = RmIdle
    /\ UNCHANGED <<catalog, orders, carts, state, user_data>>

\* ------------------------------------------------ the conversation of main
\* The callback data the keyboards of the bot carry, by kind: "product" is
\* str(product['id']), "add" is add_<id>, "remove" is remove_<documentId>,
\* "qty" is qty_<quantity>_<id>.
CallbackData ==
    {"show_products", "view_cart", "main_menu", "about", "checkout", "product",
     "add", "remove", "qty", "custom_qty", "cancel_qty"}

\* The callback main registers (1326-1349) for callback data in state st:
\* that of the first handler of the state whose pattern matches; "none" in
\* a state without handlers (HANDLE_QUANTITY, an ended conversation) and
\* for data no pattern of the state matches.
registered(st, data) ==
    CASE st = HANDLE_MENU /\ data = "show_products" -> "show_products_list"
      [] st = HANDLE_MENU /\ data = "view_cart" -> "view_cart"
      [] st = HANDLE_MENU /\ data = "main_menu" -> "start"
      [] st = HANDLE_PRODUCTS /\ data = "add" -> "add_to_cart_handler"
      [] st = HANDLE_PRODUCTS /\ data = "view_cart" -> "view_cart"
      [] st = HANDLE_PRODUCTS /\ data = "main_menu" -> "start"
      [] st = HANDLE_CART /\ data = "remove" -> "remove_from_cart"
      [] st = HANDLE_CART /\ data = "checkout" -> "checkout"
      [] st = HANDLE_CART /\ data = "show_products" -> "show_products_list"
      [] st = HANDLE_CART /\ data = "main_menu" -> "start"
      [] st = WAITING_EMAIL /\ data = "main_menu" -> "start"
      [] OTHER -> "none"

\* No handler of the conversation takes the update: nothing changes.
Ignored(u) ==
    /\ last' = [NoLast EXCEPT !.handler = "ignored"]
    /\ rm' = RmIdle
    /\ UNCHANGED <<catalog, orders, carts, items, state, user_data>>

\* The dispatcher calls callback(update, context).  remove_from_cart
\* (707) and add_to_cart_handler (304) take a third argument without a
\* default: the call raises TypeError before the first line of the handler.
MissingArgument(u, h) ==
    /\ last' = [NoLast EXCEPT !.handler = h, !.raised = TRUE]
    /\ rm' = RmIdle
    /\ UNCHANGED <<catalog, orders, carts, items, state, user_data>>

\* A callback query with the given data, as the conversation of main
\* dispatches it in conversation u.
Callback(u, data) ==
    /\ dispatcher_idle
    /\ LET h == registered(state[u], data) IN
       IF h = "show_products_list" THEN ShowProductsList(u)
       ELSE IF h = "view_cart" THEN ViewCart(u)
       ELSE IF h = "start" THEN MainMenu(u)
       ELSE IF h = "checkout" THEN Checkout(u)
       ELSE IF h \in {"remove_from_cart", "add_to_cart_handler"}
       THEN MissingArgument(u, h)
       ELSE Ignored(u)

\* A text message (no command) in conversation u: handle_email in
\* WAITING_EMAIL (1346), no handler elsewhere.
Text(u, t) ==
    /\ dispatcher_idle
    /\ IF state[u] = WAITING_EMAIL THEN HandleEmail(u, t) ELSE Ignored(u)

\* -------------------------------------------------------- specifications
\* The observer is off: obs stays as it is.
ObserveOff == obs' = obs

\* The observer follows the remove_from_cart call: reset by any other
\* handler, started by the tap, stepped by each request.
ObserveOn ==
    obs' = CASE rm' = rm -> obs
             [] rm.pc = "idle" /\ rm' = RmIdle -> NoObs
             [] rm.pc = "idle" -> Observed(NoObs, RmIdle, rm')
             [] OTHER -> Observed(obs, rm, rm')

\* The observer notes the update the dispatcher was given: its data ("/start",
\* "text" or callback data), the id it carries, its conversation and the
\* state the conversation was in.
ObserveUpdate(u, data, arg) ==
    obs' = [NoObs EXCEPT !.event = data, !.arg = arg, !.chat = u, !.was = state[u]]

\* The observer notes the text of the button tapped in conversation u.
ObserveTap(u, t) ==
    obs' = [NoObs EXCEPT !.event = "product", !.arg = t, !.chat = u, !.was = state[u]]

\* The ids an update with the given data may carry: a product of the
\* catalogue or none, the documentId of a cart item.
UpdateArgs(data) ==
    CASE data \in {"product", "add", "qty"} -> ProductRefs
      [] data = "remove" -> DocIds
      [] OTHER -> {0}

\* The quantities of the items the store holds beforehand: 0.5 and 1.5.
InitQuantities == {Num(5, 1), Num(15, 1)}

\* The cart items a store with carts cs can hold beforehand: at most n, of
\* products of cat and quantities of qs.
InitItems(cs, cat, qs, n) ==
    UNION {[1..k -> {[cart |-> c, product |-> p, quantity |-> q,
                      status |-> "live", by |-> cs[c]] :
                     c \in 1..Len(cs), p \in cat, q \in qs}] : k \in 0..n}

\* A fresh session in front of a store with catalogue cat, carts among
\* css and at most n items.
InitWith(cat, css, qs, n) ==
    /\ catalog = cat
    /\ carts \in css
    /\ items \in InitItems(carts, cat, qs, n)
    /\ orders = <<>>
    /\ state = [u \in Chats |-> END]
    /\ user_data = [k \in {tg_id(u) : u \in Chats} |->
                      [products |-> {}, current_product |-> 0]]
    /\ rm = RmIdle
    /\ obs = NoObs
    /\ last = NoLast

\* Browsing, adding and removing, on one product, one preset and two texts.
Init == InitWith({1}, {NoCart, OwnCart}, {Num(5, 1)}, MaxItems - 1)

Next ==
    \/ \E u \in Users : Start(u) /\ ObserveOff
    \/ \E u \in Users : ShowProductsList(u) /\ ObserveOff
    \/ \E u \in Users : ViewCart(u) /\ ObserveOff
    \/ \E u \in Users : AskQuantity(u, 1) /\ ObserveOff
    \/ \E u \in Users : QuantityTap(u, <<"0", ".", "5">>) /\ ObserveOff
    \/ \E u \in Users, t \in {<<"a", "b", "c">>, <<"1", ",", "5">>} : CustomQuantity(u, t) /\ ObserveOff
    \/ \E u \in Users, d \in DocIds : RemoveTap(u, d) /\ ObserveOff
    \/ ClientGetCart /\ ObserveOff
    \/ ClientDelete /\ ObserveOff
    \/ ClientRefresh /\ ObserveOff
    \/ ClientVerify /\ ObserveOff
    \/ HandlerVerify /\ ObserveOff
    \/ HandlerView /\ ObserveOff
    \/ \E i \in 1..MaxItems : Propagate(i) /\ ObserveOff

Spec == Init /\ [][Next]_vars

\* Browsing and adding, on every button and text.
InitShop == InitWith({1, 2}, {NoCart, OwnCart, TwoCarts}, InitQuantities, MaxItems - 1)

NextShop ==
    \/ \E u \in Users : Start(u) /\ ObserveOff
    \/ \E u \in Users : ShowProductsList(u) /\ ObserveOff
    \/ \E u \in Users : ViewCart(u) /\ ObserveOff
    \/ \E u \in Users, pid \in ProductRefs : AskQuantity(u, pid) /\ ObserveOff
    \/ \E u \in Users, t \in PresetTexts : QuantityTap(u, t) /\ ObserveOff
    \/ \E u \in Users, t \in QuantityTexts : CustomQuantity(u, t) /\ ObserveOff

SpecShop == InitShop /\ [][NextShop]_vars

\* Choosing a quantity for one product, on every button and text.
InitQuantity == InitWith({1}, {NoCart, OwnCart}, {Num(5, 1)}, MaxItems - 1)

NextQuantity ==
    \/ \E u \in Users : Start(u) /\ ObserveOff
    \/ \E u \in Users : MainMenu(u) /\ ObserveOff
    \/ \E u \in Users : AskQuantity(u, 1) /\ ObserveOff
    \/ \E u \in Users, t \in PresetTexts : QuantityTap(u, t) /\ ObserveOff
    \/ \E u \in Users, t \in QuantityTexts : CustomQuantity(u, t) /\ ObserveOff

SpecQuantity == InitQuantity /\ [][NextQuantity]_vars

\* The quantities of the items of the carts that are viewed: 0.5, 1.5
\* and a typed 0.12.
CartQuantities == {Num(5, 1), Num(15, 1), Num(12, 2)}

\* Viewing a cart of up to two items of two products, and removing.
InitCart == InitWith({1, 2}, {OwnCart}, CartQuantities, 2)

NextCart ==
    \/ \E u \in Users : Start(u) /\ ObserveOff
    \/ \E u \in Users : ViewCart(u) /\ ObserveOff
    \/ \E u \in Users, d \in DocIds : RemoveTap(u, d) /\ ObserveOff
    \/ ClientGetCart /\ ObserveOff
    \/ ClientDelete /\ ObserveOff
    \/ ClientRefresh /\ ObserveOff
    \/ ClientVerify /\ ObserveOff
    \/ HandlerVerify /\ ObserveOff
    \/ HandlerView /\ ObserveOff
    \/ \E i \in 1..MaxItems : Propagate(i) /\ ObserveOff

SpecCart == InitCart /\ [][NextCart]_vars

\* Ordering: viewing the cart, checking out and sending an email.
InitOrder == InitWith({1}, {OwnCart}, InitQuantities, 2)

NextOrder ==
    \/ \E u \in Users : Start(u) /\ ObserveOff
    \/ \E u \in Users : ViewCart(u) /\ ObserveOff
    \/ \E u \in Users : Checkout(u) /\ ObserveOff
    \/ \E u \in Users, t \in EmailTexts : HandleEmail(u, t) /\ ObserveOff
    \/ \E i \in 1..MaxItems : Propagate(i) /\ ObserveOff

SpecOrder == InitOrder /\ [][NextOrder]_vars

\* Ordering in one conversation while the user's second conversation
\* views the cart and removes from it.
InitTwoChats == InitWith({1}, {OwnCart}, {Num(5, 1)}, 1)

NextTwoChats ==
    \/ \E u \in Users : Start(u) /\ ObserveOff
    \/ \E u \in Users : ViewCart(u) /\ ObserveOff
    \/ \E u \in Users : Checkout(u) /\ ObserveOff
    \/ \E u \in Users : HandleEmail(u, <<"a", "@", "b", ".", "c">>) /\ ObserveOff
    \/ \E u \in SecondChats : Start(u) /\ ObserveOff
    \/ \E u \in SecondChats : ViewCart(u) /\ ObserveOff
    \/ \E u \in SecondChats, d \in DocIds : RemoveTap(u, d) /\ ObserveOff
    \/ ClientGetCart /\ ObserveOff
    \/ ClientDelete /\ ObserveOff
    \/ ClientRefresh /\ ObserveOff
    \/ ClientVerify /\ ObserveOff
    \/ HandlerVerify /\ ObserveOff
    \/ HandlerView /\ ObserveOff
    \/ \E i \in 1..MaxItems : Propagate(i) /\ ObserveOff

SpecTwoChats == InitTwoChats /\ [][NextTwoChats]_vars

\* Asking for a quantity and cancelling, for a product on sale and one
\* that is not.
InitCancel == InitWith({1}, {NoCart, OwnCart}, {Num(5, 1)}, 1)

NextCancel ==
    \/ \E u \in Users : Start(u) /\ ObserveOff
    \/ \E u \in Users : MainMenu(u) /\ ObserveOff
    \/ \E u \in Users, pid \in {1, 3} : AskQuantity(u, pid) /\ ObserveOff
    \/ \E u \in Users : CancelQuantity(u) /\ ObserveOff
    \/ \E u \in Users, t \in {<<"0">>, <<"9", "9">>} : CustomQuantity(u, t) /\ ObserveOff
    \/ \E u \in Users : QuantityTap(u, <<"0", ".", "5">>) /\ ObserveOff

SpecCancel == InitCancel /\ [][NextCancel]_vars

\* The conversation as main runs it: /start, every callback data and text
\* messages, in whatever state the conversation is.
InitMain == InitWith({1}, {OwnCart}, {Num(5, 1)}, 1)

NextMain ==
    \/ \E u \in Users : Start(u) /\ ObserveUpdate(u, "/start", 0)
    \/ \E u \in Users, data \in CallbackData :
         \E arg \in UpdateArgs(data) : Callback(u, data) /\ ObserveUpdate(u, data, arg)
    \/ \E u \in Users, t \in {<<"a", "@", "b", ".", "c">>, <<"a", "@", "b">>} :
         Text(u, t) /\ ObserveUpdate(u, "text", 0)
    \/ \E i \in 1..MaxItems : Propagate(i) /\ ObserveOff

SpecMain == InitMain /\ [][NextMain]_vars

\* One user views the cart and removes from it while another user talks
\* to the bot.
InitTwoUsers == InitWith({1}, {OwnCart}, {Num(5, 1)}, 2)

NextTwoUsers ==
    \/ \E u \in Users : Start(u) /\ ObserveOff
    \/ \E u \in Users : ViewCart(u) /\ ObserveOff
    \/ \E u \in Users, d \in DocIds : RemoveTap(u, d) /\ ObserveOff
    \/ \E u \in OtherUsers : Start(u) /\ ObserveOff
    \/ \E u \in OtherUsers : ViewCart(u) /\ ObserveOff
    \/ ClientGetCart /\ ObserveOff
    \/ ClientDelete /\ ObserveOff
    \/ ClientRefresh /\ ObserveOff
    \/ ClientVerify /\ ObserveOff
    \/ HandlerVerify /\ ObserveOff
    \/ HandlerView /\ ObserveOff
    \/ \E i \in 1..MaxItems : Propagate(i) /\ ObserveOff

SpecTwoUsers == InitTwoUsers /\ [][NextTwoUsers]_vars

\* Clearing the cart of a user who has one or none.
InitClear == InitWith({1}, {NoCart, OwnCart}, {Num(5, 1)}, 2)

NextClear ==
    \/ \E u \in Users : Start(u) /\ ObserveOff
    \/ \E u \in Users : ViewCart(u) /\ ObserveOff
    \/ \E u \in Users : ClearCart(u) /\ ObserveOff
    \/ \E i \in 1..MaxItems : Propagate(i) /\ ObserveOff

SpecClear == InitClear /\ [][NextClear]_vars

\* Refreshing the catalogue while the owner edits it.
InitCatalog == InitWith({1, 2}, {OwnCart}, {Num(5, 1)}, 2)

NextCatalog ==
    \/ \E u \in Users : Start(u) /\ ObserveOff
    \/ \E u \in Users : ShowProductsList(u) /\ ObserveOff
    \/ \E u \in Users : ViewCart(u) /\ ObserveOff
    \/ \E u \in Users : MainMenu(u) /\ ObserveOff
    \/ \E cat \in SUBSET Products : EditCatalog(cat) /\ ObserveOff
    \/ \E u \in Users, t \in ProductTexts : ProductTap(u, t) /\ ObserveTap(u, t)

SpecCatalog == InitCatalog /\ [][NextCatalog]_vars

\* Viewing and removing, observed.
InitRemove == InitWith({1}, {OwnCart, TwoCarts}, {Num(5, 1)}, MaxItems - 1)

NextRemove ==
    \/ \E u \in Users : Start(u) /\ ObserveOn
    \/ \E u \in Users : ViewCart(u) /\ ObserveOn
    \/ \E u \in Users, d \in DocIds : RemoveTap(u, d) /\ ObserveOn
    \/ ClientGetCart /\ ObserveOn
    \/ ClientDelete /\ ObserveOn
    \/ ClientRefresh /\ ObserveOn
    \/ ClientVerify /\ ObserveOn
    \/ HandlerVerify /\ ObserveOn
    \/ HandlerView /\ ObserveOn
    \/ \E i \in 1..MaxItems : Propagate(i) /\ ObserveOn

SpecRemove == InitRemove /\ [][NextRemove]_vars

\* ----------------------------------------------------- removal, checked
\* The remove_from_cart call of the last tap has returned or raised.
Finished == rm.pc = "idle" /\ rm.outcome # "none"

\* C1: a removal whose first two verification reads list the item and
\* whose third and every later read does not, with no request answered by
\* an error, ends with the cart rendered again and not with an error.
C1_ThirdReadSucceeds ==
    (Finished /\ obs.first_absent = 3 /\ ~ obs.flicker /\ ~ obs.fault)
        => rm.outcome = "rendered"

\* C2: a removal none of whose verification reads answered without the
\* item ends by raising its error, and view_cart is reached after a
\* removal only when the handler's own re-fetch came back without the item
\* (so some read after the DELETE did).
C2_SuccessOnlyWhenSeenAbsent ==
    /\ (Finished /\ obs.first_absent = 0) => rm.outcome = "error"
    /\ (rm.pc = "h_view" \/ (Finished /\ rm.outcome # "error"))
           => (obs.first_absent # 0 /\ obs.refetches >= 1)
    /\ rm.pc = "h_view" => rm.saw = "absent"

\* A removal whose nine point queries all listed the item has raised.
C2_NeverSeenAbsent ==
    /\ Finished
    /\ rm.outcome = "error"
    /\ obs.point_reads = 9
    /\ obs.first_absent = 0
    /\ ~ obs.fault

C6_RefreshIsNoOp ==
    [][(rm.pc = "c_refresh" /\ rm'.pc = "c_verify" /\ rm'.answer = "200") =>
         (carts' = carts /\ items' = items)]_vars

\* ---------------------------------------------------- shopping, checked
\* C7: when the filtered cart query answers with an empty list, view_cart
\* gets None from get_cart and shows the empty cart.
C7_EmptyListIsNoCart ==
    (last.handler = "view_cart" /\ last.answer = "empty_list")
        => last.shown = "empty_cart"

\* C8: the store holds at most one cart with the user's tg_id, and all the
\* items the user added are in one cart.
C8_OneCartPerUser ==
    \A u \in Users :
      /\ Cardinality(CartsOf(u)) <= 1
      /\ \A i, j \in ItemIds :
           (items[i].by = u /\ items[j].by = u) => items[i].cart = items[j].cart

\* The item an add of user u for quantity q creates, in the cart the
\* handler found or created.
NewItem(u, q) ==
    [cart |-> last'.cart, product |-> user_data[u].current_product,
     quantity |-> q, status |-> "live", by |-> u]

\* C9: a successful add, from a quantity button or from a typed quantity,
\* appends exactly one cart item with the product chosen and the quantity
\* given, in the user's cart, and changes no item the store held.
C9_AddAppendsOne ==
    [][\A u \in Users :
         /\ \A t \in PresetTexts :
              (last'.shown = "added" /\ QuantityTap(u, t)) =>
                  (items' = Append(items, NewItem(u, float(t).v))
                   /\ last'.cart \in CartsOf(u)')
         /\ \A t \in QuantityTexts :
              (last'.shown = "added" /\ CustomQuantity(u, t)) =>
                  (items' = Append(items, NewItem(u, float(ReplaceComma(t)).v))
                   /\ last'.cart \in CartsOf(u)')]_vars

\* The same product was added twice: two items of one cart.
C9_SameProductTwice ==
    /\ last.shown = "added"
    /\ Len(items) = 2
    /\ items[1].by \in Users /\ items[2].by \in Users
    /\ items[1].product = items[2].product
    /\ items[1].cart = items[2].cart

\* The texts the rule accepts: numbers q, written with ',' or '.', with
\* 0.1 <= q <= 50.
InRange(t) ==
    LET f == float(ReplaceComma(t)) IN
    /\ f.ok
    /\ f.v.kind = "num"
    /\ ~ LtTenth(f.v)
    /\ ~ GtFifty(f.v)

\* C10: handle_custom_quantity goes on to add_to_cart_handler exactly for
\* the texts that are numbers q with 0.1 <= q <= 50, and re-prompts for
\* every other text.
C10_AcceptedIffInRange ==
    [][\A u \in Users, t \in QuantityTexts :
         (state[u] = HANDLE_QUANTITY /\ CustomQuantity(u, t)) =>
             (last'.handler = "add_to_cart_handler" <=> InRange(t))]_vars

\* -------------------------------------------------- quantities, checked
\* A number q with 0.1 <= q <= 50.
QuantityInRange(q) ==
    /\ q.kind = "num"
    /\ q.m * 10 >= Pow10(q.e)
    /\ q.m <= 50 * Pow10(q.e)

QuantityRejections == {"bad_format", "not_positive", "below_min", "above_max"}

\* Texts that are no number, not positive, below 0.1 or above 50.
InvalidQuantityTexts ==
    {<<"a", "b", "c">>, <<>>, <<"1", ".", "5", ".", "5">>, <<"-", "1">>, <<"0">>,
     <<"0", ",", "0", "5">>, <<"5", "0", ".", "1">>, <<"i", "n", "f">>}

\* C12: a typed quantity that is no number, not positive, below 0.1 or
\* above 50 is rejected, and a rejection leaves the session in
\* HANDLE_QUANTITY, current_product and the snapshot as they were, and
\* the carts and the cart items of the store untouched, whatever was
\* typed before.
C12_RejectionChangesNothing ==
    [][\A u \in Users, t \in QuantityTexts :
         /\ (t \in InvalidQuantityTexts /\ CustomQuantity(u, t)) =>
                last'.shown \in QuantityRejections
         /\ (last'.shown \in QuantityRejections /\ CustomQuantity(u, t)) =>
                /\ state[u] = HANDLE_QUANTITY
                /\ state' = state
                /\ user_data' = user_data
                /\ carts' = carts
                /\ items' = items]_vars

\* A text was rejected while a product waits for its quantity and the
\* cart holds an item.
C12_RejectedWithCart ==
    /\ last.handler = "handle_custom_quantity"
    /\ last.shown = "above_max"
    /\ \E u \in Users :
         /\ state[u] = HANDLE_QUANTITY
         /\ user_data[u].current_product = 1
         /\ \E i \in ItemIds : items[i].by = u

\* ------------------------------------------------ the cart view, checked
\* The sum of quantity * price, and of the quantities, over the items S.
RECURSIVE SumOfItems(_)
SumOfItems(S) ==
    IF S = {} THEN Num(0, 0)
    ELSE LET i == CHOOSE x \in S : TRUE
         IN Plus(Canonical(items[i].quantity.m * price(items[i].product),
                           items[i].quantity.e),
                 SumOfItems(S \ {i}))

RECURSIVE SumOfQuantities(_)
SumOfQuantities(S) ==
    IF S = {} THEN Num(0, 0)
    ELSE LET i == CHOOSE x \in S : TRUE
         IN Plus(items[i].quantity, SumOfQuantities(S \ {i}))

C14_OneLinePerProduct ==
    /\ []((last.handler = "view_cart" /\ last.shown = "cart") =>
            \A p \in {items[i].product : i \in last.listed} :
              LET group == {i \in last.listed : items[i].product = p}
                  lines == {l \in last.lines : l.product = p}
              IN /\ Cardinality(lines) = 1
                 /\ \A l \in lines :
                      /\ l.quantity_str = SumOfQuantities(group)
                      /\ l.item_total = SumOfItems(group)
                      /\ \E i \in group : l.remove = DocumentId(i))
    /\ [][(rm.pc = "c_delete" /\ rm' # rm /\ rm'.answer = "200") =>
            \A i \in ItemIds :
              IF i = ItemOf(rm.item)
              THEN items'[i] = [items[i] EXCEPT !.status = "stale"]
              ELSE items'[i] = items[i]]_vars

\* ---------------------------------------------------- ordering, checked
\* The handler's cart query at order time found no cart or no item.
NothingToOrder ==
    /\ last.handler = "handle_email"
    /\ last.shown # "bad_email"
    /\ \/ last.answer \in {"empty_list", "no_content"}
       \/ last.answer = "list" /\ last.listed = {}

\* C15: when the cart query at order time finds no cart or no item, the
\* user is told that the cart is empty and no POST orders is sent; and no
\* order of the store is without line items.
C15_EmptyCartNoOrder ==
    /\ NothingToOrder => (last.shown = "cart_is_empty" /\ last.post = "none")
    /\ \A o \in 1..Len(orders) : orders[o].cart_products # {}

C17_CreatedIsReportedCreated ==
    (last.handler = "handle_email" /\ last.post = "created")
        => last.shown = "thanks"

\* A text of the shape local@domain.tld: one '@', text before it, and
\* after it a dot with text on both sides.
WellFormedEmail(e) ==
    /\ Cardinality({i \in 1..Len(e) : e[i] = "@"}) = 1
    /\ \E a, d \in 1..Len(e) :
         /\ e[a] = "@"
         /\ a > 1
         /\ e[d] = "."
         /\ d > a + 1
         /\ d < Len(e)

\* C18: handle_email goes on to create_order exactly for the texts that,
\* trimmed, have the shape local@domain.tld, and re-prompts for every
\* other text.
C18_AcceptedIffWellFormed ==
    [][\A u \in Users, t \in EmailTexts :
         HandleEmail(u, t) =>
             (last'.shown # "bad_email" <=> WellFormedEmail(strip(t)))]_vars

\* Texts without the shape local@domain.tld.
InvalidEmailTexts ==
    {<<"b", "a", "d", "-", "e", "m", "a", "i", "l">>, <<"a", "@", "b">>,
     <<"@", "b", ".", "c">>, <<"a", "@", ".", "c">>, <<"a", "@", "b", ".">>,
     <<"a", "@", "@", "b", ".", "c">>, <<>>}

\* C19: a text without the shape of an email is rejected; a rejected
\* email leaves the session in WAITING_EMAIL, the orders, the carts and
\* the cart items as they were; and a step that creates an order is the
\* step of an email in WAITING_EMAIL and leaves the session in
\* HANDLE_MENU.
C19_RejectedEmailChangesNothing ==
    [][/\ \A u \in Users, t \in EmailTexts :
           /\ (t \in InvalidEmailTexts /\ HandleEmail(u, t)) =>
                  last'.shown = "bad_email"
           /\ (last'.shown = "bad_email" /\ HandleEmail(u, t)) =>
                  /\ state'[u] = WAITING_EMAIL
                  /\ orders' = orders
                  /\ carts' = carts
                  /\ items' = items
       /\ orders' # orders =>
             /\ last'.handler = "handle_email"
             /\ last'.shown # "bad_email"
             /\ \E u \in Users :
                  state[u] = WAITING_EMAIL /\ state'[u] = HANDLE_MENU]_vars

\* An email was rejected while the cart holds an item and no order
\* exists.
C19_RejectedWithCart ==
    /\ last.handler = "handle_email"
    /\ last.shown = "bad_email"
    /\ orders = <<>>
    /\ \E u \in Users :
         /\ state[u] = WAITING_EMAIL
         /\ \E c \in CartsOf(tg_id(u)) : CartLive(c) # {}

\* C20: a main-menu event whose catalogue query succeeded leaves the
\* session in HANDLE_MENU with no current_product, also when it comes in
\* HANDLE_QUANTITY after rejected quantities.
C20_MainMenuClearsProduct ==
    (last.handler = "main_menu" /\ last.shown \in {"welcome", "products"}) =>
        \A u \in Users :
          /\ state[u] = HANDLE_MENU
          /\ user_data[tg_id(u)].current_product = 0

\* C30: a catalogue refresh (start, show_products_list) that fetched the
\* products leaves the fetched list, whole, as the session's snapshot; one
\* whose fetch failed leaves the snapshot as it was; no step leaves a
\* snapshot that is neither the one before nor the fetched list.
C30_SnapshotReplacedAsAWhole ==
    [][(catalog' = catalog /\ items' = items) =>
         \A u \in Users :
           LET old == user_data[tg_id(u)].products
               new == user_data'[tg_id(u)].products
           IN /\ new \in {old, catalog}
              /\ (/\ last'.handler \in {"start", "show_products_list", "main_menu"}
                  /\ last'.shown \in {"welcome", "products"}) => new = catalog
              /\ (/\ last'.handler \in {"start", "show_products_list", "main_menu"}
                  /\ last'.shown \in {"start_failed", "none"}) => new = old]_vars

\* C30 witness: a refresh after the owner replaced product 1 by product 2
\* left the snapshot with product 2 alone.
C30_RefreshedAfterEdit ==
    /\ last.handler = "show_products_list"
    /\ last.shown = "products"
    /\ catalog = {2}
    /\ user_data[101].products = {2}

\* C27: checkout moves the session to WAITING_EMAIL only when its cart
\* query returned a cart with at least one item; when the query finds no
\* cart or a cart without items, the session does not enter WAITING_EMAIL
\* and the user is told that the cart is empty.
C27_CheckoutNeedsItems ==
    last.handler = "checkout" =>
      \A u \in Users :
        /\ state[u] = WAITING_EMAIL => (last.answer = "list" /\ last.listed # {})
        /\ (\/ last.answer \in {"empty_list", "no_content"}
            \/ last.answer = "list" /\ last.listed = {})
             => (state[u] # WAITING_EMAIL /\ last.shown = "cart_is_empty")

\* C26: after a cancel event handled in HANDLE_QUANTITY the session holds
\* no current_product and is no longer in HANDLE_QUANTITY.
C26_CancelClearsProduct ==
    last.handler = "cancel_qty" =>
      \A u \in Users : /\ user_data[tg_id(u)].current_product = 0
                       /\ state[u] # HANDLE_QUANTITY

\* C23: a handler one of whose backend requests failed (start,
\* show_products_list, view_cart, add_to_cart_handler, checkout, the
\* create_order of an email) has shown an error message, was not left by an
\* exception, and has moved the session to HANDLE_MENU.
C23_BackendErrorLeadsToMenu ==
    (\/ last.handler = "start" /\ last.shown = "start_failed"
     \/ last.handler = "show_products_list" /\ last.raised
     \/ /\ last.handler \in {"view_cart", "add_to_cart_handler", "checkout",
                             "handle_email"}
        /\ last.answer = "error")
      => /\ \A u \in Users : state[u] = HANDLE_MENU
         /\ ~ last.raised
         /\ last.shown # "none"

\* C21: a main-menu event dispatched in a conversation that /start has
\* opened is handled and leaves the session in HANDLE_MENU.
C21_MainMenuLeadsToMenu ==
    (obs.event = "main_menu" /\ obs.was # END)
       => (last.handler = "main_menu" /\ state[obs.chat] = HANDLE_MENU)

\* C22: whatever the state, the update and the backend's answers, the
\* handler the conversation dispatches is not left by an exception, and an
\* update for which the state registers no handler changes nothing.
C22_EveryUpdateIsHandled ==
    obs.event # "none" =>
      /\ ~ last.raised
      /\ (obs.event \in CallbackData /\ registered(obs.was, obs.event) = "none")
           => (last.handler = "ignored" /\ state[obs.chat] = obs.was)

\* C24: in the conversation main runs, a tap on a product of the snapshot,
\* made on the product list, shows the product; a tap on add-to-cart
\* stores the product and moves to HANDLE_QUANTITY; a preset tap there
\* calls add_to_cart_handler.
C24_PurchasePathIsLive ==
    [][\A u \in Users :
         /\ (/\ last.handler = "show_products_list" /\ last.shown = "products"
             /\ obs'.event = "product" /\ obs'.chat = u
             /\ obs'.arg \in user_data[tg_id(u)].products)
              => last'.shown = "product_details"
         /\ (/\ obs'.event = "add" /\ obs'.chat = u /\ obs'.was # END
             /\ obs'.arg \in user_data[tg_id(u)].products)
              => (/\ state'[u] = HANDLE_QUANTITY
                  /\ user_data'[tg_id(u)].current_product = obs'.arg)
         /\ (obs'.event = "qty" /\ obs'.chat = u /\ state[u] = HANDLE_QUANTITY)
              => last'.handler = "add_to_cart_handler"]_vars

\* C25: a remove tap dispatched in HANDLE_CART for an item the store holds
\* in the user's cart starts the removal: the handler is not left by an
\* exception and the remove_from_cart call is under way or has ended.
C25_RemoveTapStartsRemoval ==
    (/\ obs.event = "remove" /\ obs.was = HANDLE_CART
     /\ ItemOf(obs.arg) # 0
     /\ items[ItemOf(obs.arg)].status = "live"
     /\ items[ItemOf(obs.arg)].cart \in CartsOf(tg_id(obs.chat)))
       => (~ last.raised /\ rm # RmIdle)

\* C28: while the removal of one user is inside its loops, an update of
\* another user can be dispatched.
C28_OtherUserNotBlocked ==
    (rm.pc # "idle" /\ rm.user \in Users)
       => ENABLED (\E u \in OtherUsers : Start(u))

\* C29: while a handler of a user has not returned, no update of that user
\* is dispatched; every step taken meanwhile is a request of the one
\* removal under way, and the state of the conversation changes only with
\* the step that ends it.
C29_OneHandlerAtATime ==
    /\ [](rm.pc # "idle" =>
            ~ ENABLED (\E u \in Users : \/ Start(u)
                                        \/ ViewCart(u)
                                        \/ \E d \in DocIds : RemoveTap(u, d)))
    /\ [][rm.pc # "idle" =>
            /\ rm'.user = rm.user
            /\ rm'.item = rm.item
            /\ rm'.pc # "idle" => (state' = state /\ last' = last)]_vars

\* C29 witness: the user's second removal is under way after the first
\* one deleted its item.
C29_SecondRemovalUnderWay ==
    /\ rm.pc = "c_verify"
    /\ rm.user \in Users
    /\ \E i \in ItemIds : DocumentId(i) # rm.item /\ items[i].status # "live"

\* The numerals that name product p: its decimal digit, with leading zeros
\* or a plus sign.
NamesProduct(t, p) ==
    LET d == CASE p = 1 -> "1" [] p = 2 -> "2" [] OTHER -> "3" IN
    \E k \in 0..Len(t) :
      /\ Len(t) >= 1
      /\ t[Len(t)] = d
      /\ \/ /\ k = Len(t) - 1
            /\ \A i \in 1..k : t[i] = "0"
         \/ /\ k = Len(t) - 1
            /\ k >= 1
            /\ t[1] = "+"
            /\ \A i \in 2..k : t[i] = "0"

\* C31: a tap on a product button resolves exactly when its data names a
\* product of the session's snapshot, whatever the store holds by then, and
\* the lookup sends no request: the store and the snapshot stay as they are.
C31_ResolvedAgainstSnapshot ==
    [][(/\ last'.handler = "handle_product_selection"
        /\ obs'.event = "product"
        /\ <<last, obs>>' # <<last, obs>>) =>
         \A u \in Users :
           /\ (last'.shown = "product_details") <=>
                 \E p \in user_data[tg_id(u)].products : NamesProduct(obs'.arg, p)
           /\ last'.shown \in {"product_details", "product_not_found"}
           /\ last'.answer = "none"
           /\ UNCHANGED <<catalog, carts, items, orders, user_data>>]_vars

\* C31 witness: the button of product 1 resolves after the owner took the
\* product off the store.
C31_ResolvedAfterRemoval ==
    /\ obs.event = "product"
    /\ obs.arg = <<"1">>
    /\ last.shown = "product_details"
    /\ 1 \notin catalog

\* C32: clear_cart sends a DELETE for every item of the cart it read and
\* succeeds whether or not the DELETEs do; for a user without a cart it
\* sends none and succeeds.
C32_ClearCartDeletesAll ==
    last.handler = "clear_cart" =>
      /\ last.answer = "list" =>
            (last.submitted = last.listed /\ last.cleared = "done")
      /\ last.answer \in {"empty_list", "no_content"} =>
            (last.submitted = {} /\ last.cleared = "done")

\* C33: when the cart view_cart fetched lists an item whose product the
\* store no longer holds, the message has the lines and the total of the
\* other items only, and the session is in HANDLE_CART.
C33_UnpopulatedItemLeftOut ==
    [][\A u \in Users :
         (/\ last'.handler = "view_cart"
          /\ state[u] = HANDLE_MENU
          /\ catalog' = catalog /\ items' = items
          /\ \E i \in last'.listed : items[i].product \notin catalog) =>
             LET others == {i \in last'.listed : items[i].product \in catalog}
             IN /\ last'.shown = "cart"
                /\ state'[u] = HANDLE_CART
                /\ {l.product : l \in last'.lines} = {items[i].product : i \in others}
                /\ last'.total = SumOfItems(others)]_vars

\* C34: a conversation in HANDLE_QUANTITY belongs to a user whose session
\* holds a current_product, and handle_custom_quantity never answers
\* 'no product selected'.
C34_QuantityStateHasProduct ==
    /\ \A u \in Chats :
         state[u] = HANDLE_QUANTITY => user_data[tg_id(u)].current_product # 0
    /\ last.shown # "no_product"

\* C34 witness: the session is still in HANDLE_QUANTITY, with its product,
\* after a quantity was rejected or the prompt was cancelled.
C34_StillAskingAfterRejection ==
    \E u \in Users :
      /\ state[u] = HANDLE_QUANTITY
      /\ user_data[tg_id(u)].current_product = 3
      /\ \/ last.handler = "handle_custom_quantity" /\ last.shown = "not_positive"
         \/ last.handler = "cancel_qty"

\* C35: add_to_cart_handler called for a product id the session's snapshot
\* does not hold creates no cart and no item, shows its error message, is
\* not left by an exception and leaves the session in HANDLE_MENU.
C35_UnresolvedProductNoWrite ==
    [][\A u \in Users :
         (/\ last'.handler = "add_to_cart_handler"
          /\ state[u] = HANDLE_QUANTITY
          /\ user_data[tg_id(u)].current_product
                \notin user_data[tg_id(u)].products) =>
             /\ carts' = carts
             /\ items' = items
             /\ last'.shown = "add_failed"
             /\ ~ last'.raised
             /\ state'[u] = HANDLE_MENU]_vars

=============================================================================
